---------------------------- MODULE Spec2Model ----------------------------
(***************************************************************************)
(* A model of the input overlay server of src/main.py: the InputServer     *)
(* object (session state and subscriber set), one monitor_device task per  *)
(* device, one handle_client task per websocket connection and main().     *)
(*                                                                         *)
(* Scheduling is asyncio's: one task runs at a time and keeps running      *)
(* until it suspends in an await that cannot complete at once.  `active'   *)
(* names the running task; while it is set no other task and no callback   *)
(* of the event loop (a connection closing, a device becoming readable)    *)
(* takes a step.  The awaits that suspend are the read of the next raw     *)
(* event (line 303), client.send on a connection whose write buffer is     *)
(* full (line 292), websocket.wait_closed (line 276) and gather (236).     *)
(***************************************************************************)
EXTENDS Integers, Sequences, FiniteSets, TLC

----------------------------------------------------------------------------
(* Bounds of the model. *)

\* Raw events read from all devices together in one run.
MaxRaw == 3
\* Largest magnitude of a relative delta or wheel value a device reports.
MaxDelta == 1
\* Websocket connections made in one run; connection n is the n-th slot of
\* the subscriber set's iteration order.
NumClients == 2

----------------------------------------------------------------------------
(* Constants of the program: evdev's event types and codes, as named by   *)
(* the source.                                                             *)

EV_KEY == 1
EV_REL == 2
\* An event type process_event does not look at.
EV_OTHER == EV_REL + 1

REL_X == 0
REL_Y == 1
REL_HWHEEL == 6
REL_WHEEL == 8
\* A relative axis process_event does not look at.
REL_OTHER == REL_Y + 1

KEY_A == 30
KEY_UP == 103
\* A key code in neither table.
KEY_UNMAPPED == KEY_UP + 80

VC_A == 30
VC_UP == 3656

BTN_LEFT == 272
BTN_RIGHT == 273
BTN_MIDDLE == 274
BTN_SIDE == 275
BTN_EXTRA == 276

\* MouseDirection
VERTICAL == 3
HORIZONTAL == 4

Devices == {"kbd", "mouse"}
Clients == 1 .. NumClients

----------------------------------------------------------------------------
(* Tables and pure helpers. *)

\* The entries of EVDEV_TO_LIBUIOHOOK the model's devices use.
EVDEV_TO_LIBUIOHOOK == (KEY_A :> VC_A) @@ (KEY_UP :> VC_UP)

RECURSIVE Pow2(_)
Pow2(n) == IF n = 0 THEN 1 ELSE 2 * Pow2(n - 1)

\* 1 << (8 + index of the button), one entry per BTN_* code.
MOUSE_BUTTON_MASKS ==
    [code \in {BTN_LEFT, BTN_RIGHT, BTN_MIDDLE, BTN_SIDE, BTN_EXTRA} |->
        Pow2(8 + (code - BTN_LEFT))]

\* Whether the single bit `mask' is set in `state'.
HasBit(state, mask) == (state \div mask) % 2 = 1

\* state | mask, for a single-bit mask.
BitOr(state, mask) == IF HasBit(state, mask) THEN state ELSE state + mask

\* state ^ mask in place of state & ~mask.
BitXor(state, mask) == IF HasBit(state, mask) THEN state - mask ELSE state + mask

\* state & ~mask, for a single-bit mask.
BitAndNot(state, mask) == IF HasBit(state, mask) THEN state - mask ELSE state

NoEvent == [event_type |-> "none"]

KeyboardEvent(t, k) == [event_type |-> t, keycode |-> k]
MouseButtonEvent(t, b, m) == [event_type |-> t, button |-> b, mask |-> m]
MouseMovementEvent(t, x, y) == [event_type |-> t, x |-> x, y |-> y]
MouseWheelEvent(t, d, r) == [event_type |-> t, direction |-> d, rotation |-> r]

\* The session state process_event reads and writes, as one record.
State(x, y, mask, keys) == [x |-> x, y |-> y, mask |-> mask, keys |-> keys]

\* A handler's result: the new session state and the event handed to
\* broadcast_event (NoEvent when broadcast_event is not called).
Result(st, out) == [st |-> st, out |-> out]

\* handle_mouse_button reporting the mask as it was before the change.
handle_mouse_button_stale_mask(st, code, value) ==
    LET button_id == code - BTN_LEFT
        mask      == MOUSE_BUTTON_MASKS[code]
    IN  IF value = 1
        THEN Result([st EXCEPT !.mask = BitOr(st.mask, mask)],
                    MouseButtonEvent("mouse_pressed", button_id, st.mask))
        ELSE IF value = 0
        THEN Result([st EXCEPT !.mask = BitAndNot(st.mask, mask)],
                    MouseButtonEvent("mouse_released", button_id, st.mask))
        ELSE Result(st, NoEvent)

\* handle_mouse_button with a repeat handled as a press.
handle_mouse_button_repeat_presses(st, code, value) ==
    LET button_id == code - BTN_LEFT
        mask      == MOUSE_BUTTON_MASKS[code]
    IN  IF value = 1 \/ value = 2
        THEN LET m == BitOr(st.mask, mask)
             IN  Result([st EXCEPT !.mask = m],
                        MouseButtonEvent("mouse_pressed", button_id, m))
        ELSE IF value = 0
        THEN LET m == BitAndNot(st.mask, mask)
             IN  Result([st EXCEPT !.mask = m],
                        MouseButtonEvent("mouse_released", button_id, m))
        ELSE Result(st, NoEvent)

handle_mouse_button(st, code, value) ==
    LET button_id == code - BTN_LEFT
        mask      == MOUSE_BUTTON_MASKS[code]
    IN  IF value = 1
        THEN LET m == BitOr(st.mask, mask)
             IN  Result([st EXCEPT !.mask = m],
                        MouseButtonEvent("mouse_pressed", button_id, m))
        ELSE IF value = 0
        THEN LET m == BitAndNot(st.mask, mask)
             IN  Result([st EXCEPT !.mask = m],
                        MouseButtonEvent("mouse_released", button_id, m))
        ELSE Result(st, NoEvent)

\* handle_keyboard_key with a repeat handled as a press.
handle_keyboard_key_repeat_presses(st, code, value) ==
    LET libuiohook_code == EVDEV_TO_LIBUIOHOOK[code]
    IN  IF value = 1 \/ value = 2
        THEN Result([st EXCEPT !.keys = @ \cup {libuiohook_code}],
                    KeyboardEvent("key_pressed", libuiohook_code))
        ELSE IF value = 0
        THEN Result([st EXCEPT !.keys = @ \ {libuiohook_code}],
                    KeyboardEvent("key_released", libuiohook_code))
        ELSE Result(st, NoEvent)

handle_keyboard_key(st, code, value) ==
    LET libuiohook_code == EVDEV_TO_LIBUIOHOOK[code]
    IN  IF value = 1
        THEN Result([st EXCEPT !.keys = @ \cup {libuiohook_code}],
                    KeyboardEvent("key_pressed", libuiohook_code))
        ELSE IF value = 0
        THEN Result([st EXCEPT !.keys = @ \ {libuiohook_code}],
                    KeyboardEvent("key_released", libuiohook_code))
        ELSE Result(st, NoEvent)

\* Lines 327-334: REL_X moves the position and reports all of it.
process_event_rel_x(st, value) ==
    LET x == st.x + value
    IN  Result([st EXCEPT !.x = x], MouseMovementEvent("mouse_moved", x, st.y))

\* process_event's REL_Y branch reporting the position before the move.
process_event_rel_y_stale(st, value) ==
    LET y == st.y + value
    IN  Result([st EXCEPT !.y = y], MouseMovementEvent("mouse_moved", st.x, st.y))

\* Lines 336-343: REL_Y moves the position and reports all of it.
process_event_rel_y(st, value) ==
    LET y == st.y + value
    IN  Result([st EXCEPT !.y = y], MouseMovementEvent("mouse_moved", st.x, y))

\* process_event's wheel branches reporting the sign of the value, 0 for 0.
process_event_wheel_sign(st, direction, value) ==
    LET rotation == IF value > 0 THEN 1 ELSE IF value < 0 THEN -1 ELSE 0
    IN  Result(st, MouseWheelEvent("mouse_wheel", direction, rotation))

\* Lines 345-363: a wheel event reports its axis and 1 or -1.
process_event_wheel(st, direction, value) ==
    LET rotation == IF value > 0 THEN 1 ELSE -1
    IN  Result(st, MouseWheelEvent("mouse_wheel", direction, rotation))

\* process_event looking every key code that is not a button up in the
\* keyboard table, an unmapped code standing for itself.
process_event_unmapped_passes(st, ev) ==
    IF ev.type = EV_KEY
    THEN IF ev.code \in DOMAIN MOUSE_BUTTON_MASKS
         THEN handle_mouse_button(st, ev.code, ev.value)
         ELSE IF ev.code \in DOMAIN EVDEV_TO_LIBUIOHOOK
         THEN handle_keyboard_key(st, ev.code, ev.value)
         ELSE Result(st, KeyboardEvent("key_pressed", ev.code))
    ELSE IF ev.type = EV_REL
    THEN IF ev.code = REL_X THEN process_event_rel_x(st, ev.value)
         ELSE IF ev.code = REL_Y THEN process_event_rel_y(st, ev.value)
         ELSE IF ev.code = REL_WHEEL
         THEN process_event_wheel(st, VERTICAL, ev.value)
         ELSE IF ev.code = REL_HWHEEL
         THEN process_event_wheel(st, HORIZONTAL, ev.value)
         ELSE Result(st, NoEvent)
    ELSE Result(st, NoEvent)

process_event(st, ev) ==
    IF ev.type = EV_KEY
    THEN IF ev.code \in DOMAIN MOUSE_BUTTON_MASKS
         THEN handle_mouse_button(st, ev.code, ev.value)
         ELSE IF ev.code \in DOMAIN EVDEV_TO_LIBUIOHOOK
         THEN handle_keyboard_key(st, ev.code, ev.value)
         ELSE Result(st, NoEvent)
    ELSE IF ev.type = EV_REL
    THEN IF ev.code = REL_X THEN process_event_rel_x(st, ev.value)
         ELSE IF ev.code = REL_Y THEN process_event_rel_y(st, ev.value)
         ELSE IF ev.code = REL_WHEEL
         THEN process_event_wheel(st, VERTICAL, ev.value)
         ELSE IF ev.code = REL_HWHEEL
         THEN process_event_wheel(st, HORIZONTAL, ev.value)
         ELSE Result(st, NoEvent)
    ELSE Result(st, NoEvent)

----------------------------------------------------------------------------
(* Raw events the devices of the model may report. *)

RawEvent(t, c, v) == [type |-> t, code |-> c, value |-> v]

\* Key and button events with every value evdev reports (0 release, 1
\* press, 2 repeat) and one it does not (3); relative events on every axis
\* the code looks at and one it does not; an event of another type.
RawEvents ==
    {RawEvent(EV_KEY, c, v) :
        c \in {KEY_A, KEY_UP, KEY_UNMAPPED, BTN_LEFT, BTN_RIGHT}, v \in 0 .. 3}
    \cup {RawEvent(EV_REL, c, v) :
        c \in {REL_X, REL_Y, REL_OTHER, REL_WHEEL, REL_HWHEEL},
        v \in (0 - MaxDelta) .. MaxDelta}
    \cup {RawEvent(EV_OTHER, 0, 0)}

\* The raw events the subscriber-side checks need: one that is emitted and
\* one that is not.
HubEvents == {RawEvent(EV_KEY, KEY_A, v) : v \in 1 .. 2}

\* A press and a repeat of a mapped key and of a mouse button.
RepeatEvents == {RawEvent(EV_KEY, c, v) : c \in {KEY_A, BTN_LEFT}, v \in 1 .. 2}

----------------------------------------------------------------------------
VARIABLES
    \* InputServer's fields
    clients, devices, mouse_button_state, mouse_x, mouse_y, running,
    current_keyboard_state,
    \* the device handles that are open (device.close() not yet called)
    opened,
    \* main(): "init", "gather" (start() awaits gather), "returned", "done"
    mainPc,
    \* per device, the monitor_device task: its position and the locals of
    \* the broadcast_event call it is in
    mon,
    \* per device, whether the read the monitor awaits had completed with
    \* an event when the device handle was closed
    ready,
    \* per connection: "none", "open" or "closed"
    conn,
    \* per connection, the monitors suspended in send because its write
    \* buffer is full, in arrival order
    waitq,
    \* per connection, the handle_client task: "idle", "wait", "done",
    \* "KeyError"
    hPc,
    \* the task the event loop is running, or "none"
    active,
    \* history: raw events processed, broadcast_event calls, json.dumps calls
    nRaw, published, serialized,
    \* history, per connection: the messages written to it, in order, and
    \* the broadcast_event calls made while it was in the subscriber set
    recv, expect,
    \* history: the last raw event processed and the event it produced
    lastRaw, lastEvent,
    \* history: the key codes whose last press/release was a press, and the
    \* sums of the REL_X and REL_Y deltas processed
    held, sumX, sumY,
    \* history: raw events a monitor was resumed with and dropped at the
    \* test of line 303
    discarded

vars ==
    <<clients, devices, mouse_button_state, mouse_x, mouse_y, running,
      current_keyboard_state, opened, mainPc, mon, ready, conn,
      waitq, hPc, active, nRaw, published, serialized, recv, expect,
      lastRaw, lastEvent, held, sumX, sumY, discarded>>

sessionVars ==
    <<mouse_button_state, mouse_x, mouse_y, current_keyboard_state>>

historyVars ==
    <<nRaw, published, lastRaw, lastEvent, held, sumX, sumY, discarded>>

connVars == <<conn, hPc>>

\* A monitor outside broadcast_event, at position pc.
Mon(pc) ==
    [pc |-> pc, msg |-> 0, used |-> 0, pos |-> 0, disc |-> {}, start |-> {}]

Min(S) == CHOOSE x \in S : \A y \in S : x <= y

Init ==
    /\ clients = {}
    /\ devices = {}
    /\ mouse_button_state = 0
    /\ mouse_x = 0
    /\ mouse_y = 0
    /\ running = FALSE
    /\ current_keyboard_state = {}
    /\ opened = {}
    /\ mainPc = "init"
    /\ mon = [d \in Devices |-> Mon("idle")]
    /\ ready = [d \in Devices |-> FALSE]
    /\ conn = [c \in Clients |-> "none"]
    /\ waitq = [c \in Clients |-> <<>>]
    /\ hPc = [c \in Clients |-> "idle"]
    /\ active = "none"
    /\ nRaw = 0
    /\ published = 0
    /\ serialized = 0
    /\ recv = [c \in Clients |-> <<>>]
    /\ expect = [c \in Clients |-> <<>>]
    /\ lastRaw = RawEvent(0, 0, 0)
    /\ lastEvent = NoEvent
    /\ held = {}
    /\ sumX = 0
    /\ sumY = 0
    /\ discarded = 0

\* The event loop is running and between two task steps.
LoopIdle == mainPc = "gather" /\ active = "none"

----------------------------------------------------------------------------
(* main() and InputServer.start / stop. *)

\* stop() closing the device handles without clearing the flag.
stop_leaves_running ==
    /\ running' = running
    /\ opened' = {}
    /\ ready' \in {f \in [Devices -> BOOLEAN] :
                    \A d \in Devices : f[d] => d \in opened /\ mon[d].pc = "read"}

\* stop(): clear the flag and close every device handle.  A read that had
\* already completed when its handle is closed still resumes its monitor.
stop ==
    /\ running' = FALSE
    /\ opened' = {}
    /\ ready' \in {f \in [Devices -> BOOLEAN] :
                    \A d \in Devices : f[d] => d \in opened /\ mon[d].pc = "read"}

\* start() up to its first suspension: find_devices finds any set of
\* devices; with none start() returns, otherwise the websocket server and
\* one monitor per device are started and start() awaits gather.
start(D) ==
    /\ mainPc = "init"
    /\ active = "none"
    /\ running' = TRUE
    /\ \E found \in SUBSET D :
        /\ devices' = found
        /\ opened' = found
        /\ mon' = [d \in Devices |-> IF d \in found THEN Mon("read") ELSE mon[d]]
        /\ IF found = {}
           THEN mainPc' = "returned" /\ active' = "main"
           ELSE mainPc' = "gather" /\ active' = "none"
    /\ UNCHANGED <<clients, sessionVars, ready, connVars, waitq, serialized,
                   recv, expect, historyVars>>

\* gather completes when every monitor_device task has finished.
gather_returns ==
    /\ LoopIdle
    /\ \A d \in devices : mon[d].pc = "done"
    /\ mainPc' = "returned"
    /\ active' = "main"
    /\ UNCHANGED <<clients, devices, sessionVars, running, opened, mon, ready,
                   connVars, waitq, serialized, recv, expect, historyVars>>

\* main()'s finally clause, once start() has returned.
main_finally ==
    /\ mainPc = "returned"
    /\ active = "main"
    /\ stop
    /\ mainPc' = "done"
    /\ active' = "none"
    /\ UNCHANGED <<clients, devices, sessionVars, mon, connVars, waitq,
                   serialized, recv, expect, historyVars>>

\* stop() called on the running server from outside start().
stop_call ==
    /\ LoopIdle
    /\ running
    /\ stop
    /\ UNCHANGED <<clients, devices, sessionVars, mainPc, mon, connVars,
                   waitq, active, serialized, recv, expect, historyVars>>

----------------------------------------------------------------------------
(* The devices and monitor_device. *)

\* monitor_device without its try/except: the error of the read reaches
\* gather, which hands it to start() at once, and main()'s finally runs.
monitor_device_error_uncaught(d) ==
    /\ LoopIdle
    /\ mon[d].pc = "read"
    /\ ~ready[d]
    /\ mon' = [mon EXCEPT ![d] = Mon("done")]
    /\ mainPc' = "returned"
    /\ active' = "main"
    /\ UNCHANGED <<clients, devices, sessionVars, running, opened, ready,
                   connVars, waitq, serialized, recv, expect, historyVars>>

\* The read the monitor awaits raises (the device fails or is unplugged, or
\* its handle was closed): monitor_device logs the error and returns.
monitor_device_error(d) ==
    /\ LoopIdle
    /\ mon[d].pc = "read"
    /\ ~ready[d]
    /\ mon' = [mon EXCEPT ![d] = Mon("done")]
    /\ UNCHANGED <<clients, devices, sessionVars, running, opened, mainPc,
                   ready, connVars, waitq, active, serialized, recv, expect,
                   historyVars>>

\* The key codes whose last press or release was a press, after ev.
Held(h, ev) ==
    IF ev.type = EV_KEY /\ ev.value = 1 THEN h \cup {ev.code}
    ELSE IF ev.type = EV_KEY /\ ev.value = 0 THEN h \ {ev.code}
    ELSE h

\* The sum of the deltas reported on one relative axis, after ev.
Sum(s, ev, axis) ==
    IF ev.type = EV_REL /\ ev.code = axis THEN s + ev.value ELSE s

\* monitor_device without the test of self.running (line 303).
monitor_device_ignores_running(d, A) ==
    /\ LoopIdle
    /\ mon[d].pc = "read"
    /\ ready[d] \/ (d \in opened /\ nRaw < MaxRaw)
    /\ ready' = [ready EXCEPT ![d] = FALSE]
    /\ \E ev \in A :
         LET r == process_event(State(mouse_x, mouse_y, mouse_button_state,
                                      current_keyboard_state), ev)
         IN  /\ mouse_x' = r.st.x
             /\ mouse_y' = r.st.y
             /\ mouse_button_state' = r.st.mask
             /\ current_keyboard_state' = r.st.keys
             /\ nRaw' = nRaw + 1
             /\ lastRaw' = ev
             /\ lastEvent' = r.out
             /\ held' = Held(held, ev)
             /\ sumX' = Sum(sumX, ev, REL_X)
             /\ sumY' = Sum(sumY, ev, REL_Y)
             /\ discarded' = discarded
             /\ IF r.out = NoEvent
                THEN UNCHANGED <<mon, active, published, expect>>
                ELSE /\ published' = published + 1
                     /\ mon' = [mon EXCEPT ![d] =
                                  [Mon("bcast") EXCEPT !.msg = published + 1]]
                     /\ active' = d
                     /\ expect' = [c \in Clients |->
                                     IF c \in clients
                                     THEN Append(expect[c], published + 1)
                                     ELSE expect[c]]
    /\ UNCHANGED <<clients, devices, running, opened, mainPc, connVars, waitq,
                   serialized, recv>>

\* The device reports a raw event and the monitor is resumed with it: it
\* leaves the loop when the server is no longer running, else process_event
\* applies the event and, for an event that is emitted, calls
\* broadcast_event.
monitor_device(d, A) ==
    /\ LoopIdle
    /\ mon[d].pc = "read"
    /\ ready[d] \/ (d \in opened /\ nRaw < MaxRaw)
    /\ ready' = [ready EXCEPT ![d] = FALSE]
    /\ IF ~running
       THEN /\ mon' = [mon EXCEPT ![d] = Mon("done")]
            /\ discarded' = discarded + 1
            /\ UNCHANGED <<sessionVars, active, expect, nRaw, published,
                           lastRaw, lastEvent, held, sumX, sumY>>
       ELSE \E ev \in A :
            LET r == process_event(State(mouse_x, mouse_y, mouse_button_state,
                                         current_keyboard_state), ev)
            IN  /\ mouse_x' = r.st.x
                /\ mouse_y' = r.st.y
                /\ mouse_button_state' = r.st.mask
                /\ current_keyboard_state' = r.st.keys
                /\ nRaw' = nRaw + 1
                /\ lastRaw' = ev
                /\ lastEvent' = r.out
                /\ held' = Held(held, ev)
                /\ sumX' = Sum(sumX, ev, REL_X)
                /\ sumY' = Sum(sumY, ev, REL_Y)
                /\ discarded' = discarded
                /\ IF r.out = NoEvent
                   THEN UNCHANGED <<mon, active, published, expect>>
                   ELSE /\ published' = published + 1
                        /\ mon' = [mon EXCEPT ![d] =
                                     [Mon("bcast") EXCEPT !.msg = published + 1]]
                        /\ active' = d
                        /\ expect' = [c \in Clients |->
                                        IF c \in clients
                                        THEN Append(expect[c], published + 1)
                                        ELSE expect[c]]
    /\ UNCHANGED <<clients, devices, running, opened, mainPc, connVars, waitq,
                   serialized, recv>>

----------------------------------------------------------------------------
(* broadcast_event, as called by the monitor of device d. *)

\* broadcast_event without the early return of lines 283-284.
broadcast_event_always_serializes(d) ==
    /\ active = d
    /\ mon[d].pc = "bcast"
    /\ serialized' = serialized + 1
    /\ mon' = [mon EXCEPT ![d] =
                 [pc |-> "iter", msg |-> mon[d].msg,
                  used |-> Cardinality(clients), pos |-> 0,
                  disc |-> {}, start |-> clients]]
    /\ UNCHANGED <<clients, devices, sessionVars, running, opened, mainPc,
                   ready, connVars, waitq, recv, expect, historyVars, active>>

\* Lines 283-289: return at once with no subscriber; otherwise serialize
\* the event and start iterating over self.clients itself.  The set
\* iterator remembers the size of the set and its position in it.
broadcast_event(d) ==
    /\ active = d
    /\ mon[d].pc = "bcast"
    /\ IF clients = {}
       THEN /\ mon' = [mon EXCEPT ![d] = Mon("read")]
            /\ active' = "none"
            /\ UNCHANGED serialized
       ELSE /\ serialized' = serialized + 1
            /\ mon' = [mon EXCEPT ![d] =
                         [pc |-> "iter", msg |-> mon[d].msg,
                          used |-> Cardinality(clients), pos |-> 0,
                          disc |-> {}, start |-> clients]]
            /\ UNCHANGED active
    /\ UNCHANGED <<clients, devices, sessionVars, running, opened, mainPc,
                   ready, connVars, waitq, recv, expect, historyVars>>

\* Line 290, the iterator's next: RuntimeError when the set's size is not
\* the one the iterator started with (the error leaves broadcast_event and
\* process_event and is caught by monitor_device's except, which ends the
\* monitor); the end of the loop when no slot is left; else the subscriber
\* in the next occupied slot.
\* Line 292, client.send: ConnectionClosed on a closed connection; else the
\* message is written to the connection, and the call suspends when the
\* connection's write buffer is full, behind the sends already suspended.
broadcast_event_next(d) ==
    /\ active = d
    /\ mon[d].pc = "iter"
    /\ LET m    == mon[d]
           rest == {c \in clients : c > m.pos}
       IN  IF Cardinality(clients) # m.used
           THEN /\ mon' = [mon EXCEPT ![d] = Mon("done")]
                /\ active' = "none"
                /\ UNCHANGED <<recv, waitq>>
           ELSE IF rest = {}
           THEN /\ mon' = [mon EXCEPT ![d].pc = "exit"]
                /\ UNCHANGED <<active, recv, waitq>>
           ELSE LET client == Min(rest)
                IN  IF conn[client] # "open"
                    THEN /\ mon' = [mon EXCEPT ![d].pos = client,
                                               ![d].disc = @ \cup {client}]
                         /\ UNCHANGED <<active, recv, waitq>>
                    ELSE /\ recv' = [recv EXCEPT ![client] = Append(@, m.msg)]
                         /\ \E full \in IF waitq[client] = <<>>
                                         THEN BOOLEAN ELSE {TRUE} :
                            IF full
                            THEN /\ mon' = [mon EXCEPT ![d].pos = client,
                                                       ![d].pc = "send"]
                                 /\ waitq' = [waitq EXCEPT ![client] = Append(@, d)]
                                 /\ active' = "none"
                            ELSE /\ mon' = [mon EXCEPT ![d].pos = client]
                                 /\ UNCHANGED <<active, waitq>>
    /\ UNCHANGED <<clients, devices, sessionVars, running, opened, mainPc,
                   ready, connVars, serialized, expect, historyVars>>

\* A suspended client.send is resumed, first come first served, when the
\* connection's buffer has drained or the connection was lost; on a lost
\* connection it may raise ConnectionClosed.
broadcast_event_resume(d) ==
    /\ LoopIdle
    /\ mon[d].pc = "send"
    /\ LET client == mon[d].pos
       IN  /\ Head(waitq[client]) = d
           /\ waitq' = [waitq EXCEPT ![client] = Tail(@)]
           /\ \E raised \in IF conn[client] = "closed" THEN BOOLEAN ELSE {FALSE} :
                mon' = [mon EXCEPT ![d].pc = "iter",
                                   ![d].disc = IF raised THEN @ \cup {client} ELSE @]
    /\ active' = d
    /\ UNCHANGED <<clients, devices, sessionVars, running, opened, mainPc,
                   ready, connVars, serialized, recv, expect, historyVars>>

\* Line 297: remove the subscribers whose send raised, and return to the
\* monitor's read.
broadcast_event_exit(d) ==
    /\ active = d
    /\ mon[d].pc = "exit"
    /\ clients' = clients \ mon[d].disc
    /\ mon' = [mon EXCEPT ![d] = Mon("read")]
    /\ active' = "none"
    /\ UNCHANGED <<devices, sessionVars, running, opened, mainPc, ready,
                   connVars, waitq, serialized, recv, expect, historyVars>>

----------------------------------------------------------------------------
(* The websocket connections and handle_client. *)

\* A connection is accepted and its handle_client task runs to wait_closed.
handle_client(c) ==
    /\ LoopIdle
    /\ conn[c] = "none"
    /\ conn' = [conn EXCEPT ![c] = "open"]
    /\ hPc' = [hPc EXCEPT ![c] = "wait"]
    /\ clients' = clients \cup {c}
    /\ UNCHANGED <<devices, sessionVars, running, opened, mainPc, mon, ready,
                   waitq, active, serialized, recv, expect,
                   historyVars>>

\* wait_closed has returned: the finally clause removes the connection from
\* the set with set.remove, which raises KeyError for a missing element.
handle_client_finally(c) ==
    /\ LoopIdle
    /\ hPc[c] = "wait"
    /\ conn[c] = "closed"
    /\ IF c \in clients
       THEN /\ clients' = clients \ {c}
            /\ hPc' = [hPc EXCEPT ![c] = "done"]
       ELSE /\ hPc' = [hPc EXCEPT ![c] = "KeyError"]
            /\ UNCHANGED clients
    /\ UNCHANGED <<devices, sessionVars, running, opened, mainPc, mon, ready,
                   conn, waitq, active, serialized, recv, expect,
                   historyVars>>

\* The peer closes the connection or the connection is lost.
ConnectionLost(c) ==
    /\ LoopIdle
    /\ conn[c] = "open"
    /\ conn' = [conn EXCEPT ![c] = "closed"]
    /\ UNCHANGED <<clients, devices, sessionVars, running, opened, mainPc, mon,
                   ready, hPc, waitq, active, serialized, recv, expect,
                   historyVars>>

----------------------------------------------------------------------------
(* The specifications. *)

\* The steps of main() and of the monitors of devices D, which report raw
\* events of A, up to the subscriber loop of broadcast_event.
SessionNext(D, A) ==
    \/ start(D)
    \/ gather_returns
    \/ main_finally
    \/ stop_call
    \/ \E d \in D :
        \/ monitor_device_error(d)
        \/ monitor_device(d, A)
        \/ broadcast_event(d)

\* The steps of the connections C and of broadcast_event's subscriber loop.
HubNext(C) ==
    \/ \E d \in Devices :
        \/ broadcast_event_next(d)
        \/ broadcast_event_resume(d)
        \/ broadcast_event_exit(d)
    \/ \E c \in C :
        \/ handle_client(c)
        \/ handle_client_finally(c)
        \/ ConnectionLost(c)

\* Two devices and NumClients connections.
Next == SessionNext(Devices, HubEvents) \/ HubNext(Clients)

Spec == Init /\ [][Next]_vars

\* Two devices and a single connection.
SessionSpecNext == SessionNext(Devices, HubEvents) \/ HubNext({1})

SessionSpec == Init /\ [][SessionSpecNext]_vars

\* SessionSpec with the event loop's scheduling: a task that can run is
\* run, be it main(), a monitor whose read has completed or a monitor
\* inside broadcast_event.  What the devices, the connections and an
\* outside caller of stop() do is not scheduled by the loop: a read may
\* never fail and a suspended send may never be resumed.
FairSessionSpec ==
    /\ SessionSpec
    /\ WF_vars(gather_returns)
    /\ WF_vars(main_finally)
    /\ \A d \in Devices :
        /\ WF_vars(ready[d] /\ monitor_device(d, HubEvents))
        /\ WF_vars(broadcast_event(d))
        /\ WF_vars(broadcast_event_next(d))
        /\ WF_vars(broadcast_event_exit(d))
    /\ WF_vars(handle_client_finally(1))

\* Two devices reporting presses and repeats, and a single connection.
RepeatSpecNext == SessionNext(Devices, RepeatEvents) \/ HubNext({1})

RepeatSpec == Init /\ [][RepeatSpecNext]_vars

\* Two devices reporting every raw event, and no connection: the input
\* state and the events handed to broadcast_event.
TrackerNext == SessionNext(Devices, RawEvents)

TrackerSpec == Init /\ [][TrackerNext]_vars

----------------------------------------------------------------------------
(* The claims. *)

\* The monitor of device d is inside broadcast_event.
InBroadcast(d) == mon[d].pc \in {"bcast", "iter", "send", "exit"}

\* The step processes a raw event (process_event is called).
Processed == nRaw' = nRaw + 1

\* C1: after any sequence of raw key and button events processed by
\* process_event, the pressed-key set holds exactly the protocol codes of
\* the keys whose last press or release was a press, and a button's bit is
\* set in the button mask exactly when the button's last press or release
\* was a press; a repeat (and any other value) changes neither.
C1_StateFollowsLastPressRelease ==
    /\ current_keyboard_state =
         {EVDEV_TO_LIBUIOHOOK[k] : k \in held \cap DOMAIN EVDEV_TO_LIBUIOHOOK}
    /\ \A b \in DOMAIN MOUSE_BUTTON_MASKS :
         HasBit(mouse_button_state, MOUSE_BUTTON_MASKS[b]) <=> b \in held

\* A repeat of a held key arrives while a button is held too.
C1_Witness ==
    /\ lastRaw = RawEvent(EV_KEY, KEY_A, 2)
    /\ current_keyboard_state = {VC_A}
    /\ HasBit(mouse_button_state, MOUSE_BUTTON_MASKS[BTN_LEFT])

\* C2: every mouse_moved event carries the sums of all REL_X and of all
\* REL_Y deltas processed so far, the delta that caused it included; a
\* REL_X event is reported at once, before any later REL_Y, with only x
\* moved.
C2_MovedCarriesSums ==
    /\ [](lastEvent.event_type = "mouse_moved" =>
            lastEvent.x = sumX /\ lastEvent.y = sumY)
    /\ [][(Processed /\ lastRaw'.type = EV_REL /\ lastRaw'.code = REL_X) =>
            /\ published' = published + 1
            /\ lastEvent' = MouseMovementEvent("mouse_moved",
                                               mouse_x + lastRaw'.value, mouse_y)
            /\ mouse_y' = mouse_y]_vars

\* REL_X = +MaxDelta then REL_Y = -MaxDelta from (0, 0): the second event
\* reports both.
C2_Witness ==
    /\ nRaw = 2
    /\ lastRaw = RawEvent(EV_REL, REL_Y, 0 - MaxDelta)
    /\ lastEvent = MouseMovementEvent("mouse_moved", MaxDelta, 0 - MaxDelta)

\* C6: broadcast_event called while the subscriber set is empty serializes
\* nothing, sends nothing, raises no error (the monitor goes back to its
\* read) and leaves the subscriber set and the session state unchanged.
C6_EmptyBroadcastIsNoOp ==
    [][\A d \in Devices :
         (mon[d].pc = "bcast" /\ clients = {} /\ mon'[d].pc # "bcast") =>
            /\ serialized' = serialized
            /\ recv' = recv
            /\ clients' = clients
            /\ mon'[d] = Mon("read")
            /\ UNCHANGED <<sessionVars, running>>]_vars

\* An event was published to an empty subscriber set and the monitor is
\* back at its read.
C6_Witness ==
    /\ published = 1
    /\ serialized = 0
    /\ clients = {}
    /\ \A c \in Clients : conn[c] = "none"
    /\ \E d \in Devices : mon[d].pc = "read"
    /\ \A d \in Devices : ~InBroadcast(d)

\* The raw event of the step is a release of a key or button that is not
\* held.
ReleaseOfNotHeld ==
    /\ Processed
    /\ lastRaw'.type = EV_KEY
    /\ lastRaw'.value = 0
    /\ \/ /\ lastRaw'.code \in DOMAIN EVDEV_TO_LIBUIOHOOK
          /\ EVDEV_TO_LIBUIOHOOK[lastRaw'.code] \notin current_keyboard_state
       \/ /\ lastRaw'.code \in DOMAIN MOUSE_BUTTON_MASKS
          /\ ~HasBit(mouse_button_state, MOUSE_BUTTON_MASKS[lastRaw'.code])

\* C7: a release of a key or mouse button that is not held raises no error
\* (the monitor goes on to broadcast_event), leaves the pressed-key set and
\* the button mask unchanged, and emits exactly one release event:
\* key_released with the protocol code, or mouse_released with the button
\* and the unchanged mask.
C7_ReleaseOfNotHeldIsNoOp ==
    [][ReleaseOfNotHeld =>
         /\ UNCHANGED sessionVars
         /\ published' = published + 1
         /\ \E d \in Devices : mon'[d].pc = "bcast" /\ mon'[d].msg = published'
         /\ lastEvent' =
              IF lastRaw'.code \in DOMAIN EVDEV_TO_LIBUIOHOOK
              THEN KeyboardEvent("key_released",
                                 EVDEV_TO_LIBUIOHOOK[lastRaw'.code])
              ELSE MouseButtonEvent("mouse_released",
                                    lastRaw'.code - BTN_LEFT,
                                    mouse_button_state)]_vars

\* BTN_RIGHT is released while only BTN_LEFT is held.
C7_Witness ==
    /\ lastRaw = RawEvent(EV_KEY, BTN_RIGHT, 0)
    /\ lastEvent = MouseButtonEvent("mouse_released", 1,
                                    MOUSE_BUTTON_MASKS[BTN_LEFT])
    /\ mouse_button_state = MOUSE_BUTTON_MASKS[BTN_LEFT]

\* A monitor that has been started and has not finished.
Monitoring(d) == mon[d].pc \notin {"idle", "done"}

\* C9: when the read of one device's monitor raises while another monitor
\* is active, the session does not stop: the flag stays set, start() keeps
\* waiting, no device handle is closed and the other monitors are where
\* they were; and main() stops the session (start() returned, its finally
\* ran stop()) only when no monitor remains.
C9_MonitorFailureIsLocal ==
    /\ [][\A d \in Devices :
            (running /\ mon[d].pc = "read" /\ mon'[d].pc = "done"
               /\ \E e \in Devices \ {d} : Monitoring(e)) =>
               /\ running'
               /\ mainPc' = "gather"
               /\ opened' = opened
               /\ \A e \in Devices \ {d} : mon'[e] = mon[e]]_vars
    /\ [][(running /\ ~running' /\ mainPc' # "gather") =>
            \A d \in Devices : ~Monitoring(d)]_vars

\* One monitor has failed and the other has processed and published an
\* event afterwards, the session still running.
C9_Witness ==
    /\ running
    /\ mainPc = "gather"
    /\ mon["kbd"].pc = "done"
    /\ mon["mouse"].pc = "iter"
    /\ published = 1
    /\ nRaw = 1

\* C8: removing a subscriber is idempotent: handle_client's cleanup of a
\* subscriber that broadcast_event has already removed raises no error
\* (and leaves the set unchanged).
C8_LeaveIsIdempotent == \A c \in Clients : hPc[c] # "KeyError"

\* The elements of a sequence.
Range(q) == {q[i] : i \in 1 .. Len(q)}

\* A sequence of call numbers in the order of the calls, none twice.
InCallOrder(q) == \A i, j \in 1 .. Len(q) : i < j => q[i] < q[j]

\* C3: a subscriber that never fails and stays connected receives the
\* events of the broadcast_event calls made while it was subscribed in the
\* order of the calls: nothing twice, nothing out of order, and nothing
\* missing once no call is in progress.
C3_FifoPerSubscriber ==
    \A c \in clients :
        conn[c] = "open" =>
            /\ InCallOrder(recv[c])
            /\ (\A d \in Devices : ~InBroadcast(d)) =>
                   Range(expect[c]) \subseteq Range(recv[c])

\* C4: when a broadcast_event call in which the delivery to a subscriber
\* failed finishes, normally or with an error, the failing subscriber is
\* not in the subscriber set, and every other subscriber the call started
\* with that is still subscribed and connected has been sent the event.
C4_FailingSubscriberRemoved ==
    [][\A d \in Devices :
         (/\ mon[d].pc \in {"iter", "exit"}
          /\ mon'[d].pc \in {"read", "done"}
          /\ mon[d].disc # {}) =>
             /\ mon[d].disc \cap clients' = {}
             /\ \A c \in (mon[d].start \cap clients') \ mon[d].disc :
                  conn[c] = "open" => mon[d].msg \in Range(recv'[c])]_vars

\* C5: while a send to one subscriber is suspended, the monitor that
\* called it can still take the next raw event its device reports, and
\* the other connected subscribers of the call have been sent the event.
C5_StalledSubscriberStallsNothing ==
    \A d \in Devices :
        (mon[d].pc = "send" /\ LoopIdle) =>
            /\ (running /\ d \in opened /\ nRaw < MaxRaw) =>
                   ENABLED monitor_device(d, HubEvents)
            /\ \A c \in (mon[d].start \cap clients) \ {mon[d].pos} :
                 conn[c] = "open" => mon[d].msg \in Range(recv[c])

\* C10: once stop() has been called while start() is in gather and every
\* monitor still running is at its read, one of them with no raw event to
\* come, the monitors all exit and start() returns.
C10_StopEndsBlockedMonitors ==
    (/\ ~running
     /\ mainPc = "gather"
     /\ \A d \in devices : mon[d].pc \in {"read", "done"}
     /\ \E d \in devices : mon[d].pc = "read" /\ ~ready[d])
        ~> (/\ mainPc \in {"returned", "done"}
            /\ \A d \in devices : mon[d].pc = "done")

\* The raw event of the step is a press or a release of a mouse button.
ButtonChange ==
    /\ Processed
    /\ lastRaw'.type = EV_KEY
    /\ lastRaw'.code \in DOMAIN MOUSE_BUTTON_MASKS
    /\ lastRaw'.value \in {0, 1}

\* Each button of MOUSE_BUTTON_MASKS has one bit, and no two the same.
DistinctSingleBits ==
    \A a, b \in DOMAIN MOUSE_BUTTON_MASKS :
        /\ \E n \in 0 .. 15 : MOUSE_BUTTON_MASKS[a] = Pow2(n)
        /\ a # b => MOUSE_BUTTON_MASKS[a] # MOUSE_BUTTON_MASKS[b]

\* C11: every mouse_pressed / mouse_released event carries the button's
\* index and the button mask as it is right after the raw event: the
\* button's own bit set after a press and clear after a release, the bits
\* of the other buttons as before; and the five buttons own five distinct
\* single bits.
C11_ButtonEventCarriesNewMask ==
    [][ButtonChange =>
         LET code == lastRaw'.code
         IN  /\ lastEvent' =
                  MouseButtonEvent(IF lastRaw'.value = 1 THEN "mouse_pressed"
                                   ELSE "mouse_released",
                                   code - BTN_LEFT, mouse_button_state')
             /\ HasBit(mouse_button_state', MOUSE_BUTTON_MASKS[code])
                  <=> lastRaw'.value = 1
             /\ \A b \in DOMAIN MOUSE_BUTTON_MASKS \ {code} :
                  HasBit(mouse_button_state', MOUSE_BUTTON_MASKS[b])
                    <=> HasBit(mouse_button_state, MOUSE_BUTTON_MASKS[b])
             /\ DistinctSingleBits
             /\ published' = published + 1]_vars

\* BTN_LEFT down, BTN_RIGHT down, BTN_LEFT up from an empty mask: the
\* third event reports the mask with only BTN_RIGHT's bit.
C11_Witness ==
    /\ nRaw = 3
    /\ held = {BTN_RIGHT}
    /\ lastRaw = RawEvent(EV_KEY, BTN_LEFT, 0)
    /\ lastEvent = MouseButtonEvent("mouse_released", 0,
                                    MOUSE_BUTTON_MASKS[BTN_RIGHT])

\* The raw event of the step is a wheel event.
WheelTurn ==
    /\ Processed
    /\ lastRaw'.type = EV_REL
    /\ lastRaw'.code \in {REL_WHEEL, REL_HWHEEL}

\* C12: every REL_WHEEL or REL_HWHEEL raw event yields exactly one
\* mouse_wheel event, VERTICAL for REL_WHEEL and HORIZONTAL for
\* REL_HWHEEL, whose rotation is 1 for a positive value, -1 for a negative
\* one and never anything but 1 or -1, the value 0 included; the position,
\* the button mask and the pressed keys are unchanged.
C12_WheelReportsSign ==
    [][WheelTurn =>
         LET v == lastRaw'.value
         IN  /\ published' = published + 1
             /\ lastEvent'.event_type = "mouse_wheel"
             /\ lastEvent'.direction =
                  IF lastRaw'.code = REL_WHEEL THEN VERTICAL ELSE HORIZONTAL
             /\ lastEvent'.rotation \in {1, -1}
             /\ v > 0 => lastEvent'.rotation = 1
             /\ v < 0 => lastEvent'.rotation = -1
             /\ UNCHANGED sessionVars]_vars

\* A horizontal wheel event of value 0 arrives while the pointer has moved:
\* it is reported with rotation -1.
C12_Witness ==
    /\ lastRaw = RawEvent(EV_REL, REL_HWHEEL, 0)
    /\ lastEvent = MouseWheelEvent("mouse_wheel", HORIZONTAL, -1)
    /\ mouse_x = MaxDelta
    /\ published = 2

\* The raw event of the step is a repeat of a mapped key or mouse button.
Repeat ==
    /\ Processed
    /\ lastRaw'.type = EV_KEY
    /\ lastRaw'.value = 2
    /\ lastRaw'.code \in DOMAIN EVDEV_TO_LIBUIOHOOK \cup DOMAIN MOUSE_BUTTON_MASKS

\* C13: a repeat (value 2) of a mapped key or mouse button does nothing:
\* broadcast_event is not called, nothing is serialized or sent to any
\* subscriber, the monitor stays at its read, and the pressed keys, the
\* button mask and the position are unchanged.
C13_RepeatIsNoOp ==
    [][Repeat =>
         /\ UNCHANGED sessionVars
         /\ lastEvent' = NoEvent
         /\ published' = published
         /\ serialized' = serialized
         /\ recv' = recv
         /\ clients' = clients
         /\ mon' = mon]_vars

\* A subscriber has been sent the press of BTN_LEFT, and the repeat that
\* follows is processed with the button held and the subscriber connected.
C13_Witness ==
    /\ lastRaw = RawEvent(EV_KEY, BTN_LEFT, 2)
    /\ mouse_button_state = MOUSE_BUTTON_MASKS[BTN_LEFT]
    /\ clients = {1}
    /\ conn[1] = "open"
    /\ recv[1] = <<1>>
    /\ published = 1
    /\ nRaw = 2
    /\ \A d \in Devices : ~InBroadcast(d)

\* A raw event process_event has no branch for.
Unrecognized(ev) ==
    \/ ev.type \notin {EV_KEY, EV_REL}
    \/ /\ ev.type = EV_KEY
       /\ ev.code \notin DOMAIN EVDEV_TO_LIBUIOHOOK \cup DOMAIN MOUSE_BUTTON_MASKS
    \/ /\ ev.type = EV_KEY
       /\ ev.value \notin {0, 1, 2}
    \/ /\ ev.type = EV_REL
       /\ ev.code \notin {REL_X, REL_Y, REL_WHEEL, REL_HWHEEL}

\* The keyboard table and the button table share no code.
TablesDisjoint ==
    DOMAIN EVDEV_TO_LIBUIOHOOK \cap DOMAIN MOUSE_BUTTON_MASKS = {}

\* C14: a raw event that is unmapped or unrecognized (another event type,
\* a key code in neither table, another relative axis, a key value other
\* than 0, 1, 2) produces no event, changes no session state, raises no
\* error and does not end the monitor that read it, which stays at its
\* read; and a key code is handled through one table only: a button code
\* never yields a keyboard event nor a key code a button event.
C14_UnmappedInputIsIgnored ==
    [][Processed =>
         /\ Unrecognized(lastRaw') =>
              /\ UNCHANGED sessionVars
              /\ lastEvent' = NoEvent
              /\ published' = published
              /\ mon' = mon
              /\ running' = running
         /\ TablesDisjoint
         /\ (lastRaw'.type = EV_KEY /\ lastRaw'.code \in DOMAIN MOUSE_BUTTON_MASKS) =>
              /\ lastEvent'.event_type \in {"none", "mouse_pressed", "mouse_released"}
              /\ current_keyboard_state' = current_keyboard_state
         /\ (lastRaw'.type = EV_KEY /\ lastRaw'.code \in DOMAIN EVDEV_TO_LIBUIOHOOK) =>
              /\ lastEvent'.event_type \in {"none", "key_pressed", "key_released"}
              /\ mouse_button_state' = mouse_button_state]_vars

\* A key code in neither table is pressed while KEY_A is held: nothing is
\* published for it and the monitors are still reading.
C14_Witness ==
    /\ lastRaw = RawEvent(EV_KEY, KEY_UNMAPPED, 1)
    /\ lastEvent = NoEvent
    /\ current_keyboard_state = {VC_A}
    /\ nRaw = 2
    /\ published = 1
    /\ running
    /\ \A d \in Devices : mon[d].pc = "read"

\* Since the broadcast_event call of monitor d started, handle_client has
\* added a subscriber or removed one of those the call started with.
JoinedOrLeft(d) ==
    \/ clients \ mon[d].start # {}
    \/ \E c \in mon[d].start : hPc[c] = "done"

\* C15: a broadcast_event call during which a subscriber joined or left
\* while a send was suspended finishes without error (the monitor goes
\* back to its read), having sent the event to every subscriber it started
\* with that is still connected.
C15_JoinLeaveMidBroadcast ==
    [][\A d \in Devices :
         (/\ mon[d].pc \in {"iter", "exit"}
          /\ mon'[d].pc \notin {"iter", "exit", "send"}
          /\ JoinedOrLeft(d)) =>
             /\ mon'[d].pc = "read"
             /\ \A c \in mon[d].start :
                  conn[c] = "open" => mon[d].msg \in Range(recv'[c])]_vars

\* C16: a delivery failure, a join or a leave has no effect beyond the
\* subscriber set: the steps of the connections (accept, loss, cleanup)
\* change no monitor and nothing of the session, and a monitor inside
\* broadcast_event comes out of it still monitoring, with the session
\* running as before, its devices open and its state untouched.
C16_SubscriberTroubleIsLocal ==
    [][/\ (conn' # conn \/ hPc' # hPc) =>
            UNCHANGED <<mon, running, mainPc, opened, devices, sessionVars>>
       /\ \A d \in Devices :
            (InBroadcast(d) /\ active = d) =>
                /\ Monitoring(d)'
                /\ UNCHANGED <<running, mainPc, opened, devices, sessionVars>>]_vars

\* C17: when every monitor has exited, start() returns (gather completes,
\* no error), main() then runs stop() (the flag cleared, the handles
\* closed), and the session is never running again; start() returns only
\* then, with the session as it was; and when find_devices finds no device
\* no monitor is ever started and no connection is ever accepted.
C17_TotalDeviceLossStops ==
    /\ (mainPc = "gather" /\ \A d \in devices : mon[d].pc = "done")
         ~> (mainPc = "done" /\ ~running /\ opened = {})
    /\ [][(mainPc = "gather" /\ mainPc' # "gather") =>
            /\ mainPc' = "returned"
            /\ \A d \in devices : mon[d].pc = "done"
            /\ UNCHANGED <<running, opened, mon, clients, sessionVars>>]_vars
    /\ [][(mainPc = "returned" /\ mainPc' # "returned") =>
            mainPc' = "done" /\ ~running' /\ opened' = {}]_vars
    /\ [][mainPc = "done" => mainPc' = "done" /\ ~running']_vars
    /\ []((devices = {} /\ mainPc # "init") =>
            /\ mainPc # "gather"
            /\ \A d \in Devices : mon[d].pc = "idle"
            /\ clients = {}
            /\ \A c \in Clients : conn[c] = "none")

\* Both devices were monitored, an event was published, both reads
\* failed while the session was running, start() returned and main() has
\* run stop().
C17_Witness ==
    /\ mainPc = "done"
    /\ devices = Devices
    /\ \A d \in Devices : mon[d].pc = "done"
    /\ discarded = 0
    /\ published = 1
    /\ ~running
    /\ opened = {}

\* Every monitor has exited and start() has returned.
Stopped ==
    /\ mainPc \in {"returned", "done"}
    /\ \A d \in devices : mon[d].pc = "done"

\* C18: once stop() has been called no raw event is processed any more:
\* the position, the button mask and the pressed keys stay as they are and
\* no broadcast_event call is made; and once the session is Stopped
\* nothing is serialized or sent to any subscriber.
C18_NothingAfterStop ==
    /\ [][(~running /\ mainPc # "init") =>
            /\ UNCHANGED sessionVars
            /\ nRaw' = nRaw
            /\ published' = published]_vars
    /\ [][Stopped => recv' = recv /\ serialized' = serialized]_vars

\* stop() was called while a read had completed with a raw event: the
\* monitor resumed with it dropped it, a subscriber that got the one event
\* published before is still connected, and the session is Stopped.
C18_Witness ==
    /\ discarded = 1
    /\ nRaw = 1
    /\ current_keyboard_state = {VC_A}
    /\ ~running
    /\ Stopped
    /\ mainPc = "done"
    /\ conn[1] = "open"
    /\ recv[1] = <<1>>

\* C19: when the read of a device fails while the session is running, its
\* monitor exits and, in that step, the device's handle is closed and the
\* device leaves self.devices, the other devices staying open and
\* monitored.
C19_FailedDeviceIsClosed ==
    [][\A d \in Devices :
         (running /\ mon[d].pc = "read" /\ mon'[d].pc = "done") =>
            /\ d \notin opened'
            /\ d \notin devices'
            /\ \A e \in Devices \ {d} :
                 /\ e \in opened <=> e \in opened'
                 /\ mon'[e] = mon[e]]_vars

\* C20: a connection is only ever sent events of broadcast_event calls
\* that were made while it was in the subscriber set (none from before it
\* joined, none after it was removed), and none of them twice.
C20_NoReplayNoStrayDelivery ==
    \A c \in Clients :
        /\ Range(recv[c]) \subseteq Range(expect[c])
        /\ \A i, j \in 1 .. Len(recv[c]) : i # j => recv[c][i] # recv[c][j]

=============================================================================
